---- MODULE Spec2Model ----
(***************************************************************************)
(* Model of the semantic core of the language server: the scope-structured *)
(* symbol table (metadata/symbol_table.rs), its manager                    *)
(* (metadata/st_manager.rs), the CST to AST translator                     *)
(* (ast/translator.rs), the language definition registry                   *)
(* (ls_framework/src/language_def.rs) and the LSP backend handlers         *)
(* (main.rs, workspace.rs).                                                *)
(***************************************************************************)
EXTENDS Integers, Sequences, FiniteSets, TLC

VARIABLES
    ast,            \* the Ast snapshot last handed to the symbol table manager
    symbol_table,   \* SymbolTableManager.symbol_table
    edits,          \* number of new_edit calls since the last rebuild
    op,             \* the last operation run, with its arguments
    result,         \* what that operation returned (or that it panicked)
    pc,             \* where a running update(ast) stands
    next_ast,       \* the Ast the running update is building from
    building,       \* the local `table` of SymbolTable::new during a build
    instance_cell,  \* the OnceCell static of language_def.rs
    calls,          \* number of load/get calls made so far
    loads_ok,       \* number of load calls that returned
    loaded_def,     \* the definition stored by the first load that returned
    disk,           \* the text of the workspace file when the server starts
    docs,           \* the editor's current text of each document
    files           \* Backend.state.files

managerVars == <<ast, symbol_table, edits>>
rebuildVars == <<pc, next_ast, building>>
registryVars == <<instance_cell, calls, loads_ok, loaded_def>>
backendVars == <<disk, docs, files>>

vars == <<ast, symbol_table, edits, op, result, pc, next_ast, building,
          instance_cell, calls, loads_ok, loaded_def, disk, docs, files>>

----------------------------------------------------------------------------
(* Bounds of the model *)

MaxNodes == 3       \* non-root nodes of an AST
MaxManagerNodes == 2 \* non-root nodes of an AST handed to the manager
LineWidth == 4      \* characters per source line in the generated layouts
MaxEdits == 1       \* new_edit calls between two rebuilds
MaxRules == 2       \* rules of a rule-set document
MaxCalls == 3       \* calls of the language definition registry
MaxStatements == 2  \* top-level statements of a translated file

----------------------------------------------------------------------------
(* Option<T> *)

None == [some |-> FALSE]
Some(v) == [some |-> TRUE, val |-> v]
Panic == [some |-> FALSE, panic |-> TRUE]
Unit == Some("()")

----------------------------------------------------------------------------
(* lsp_types::Position and Range.  Position derives its order              *)
(* lexicographically from (line, character).                               *)

Position(off) == [line |-> off \div LineWidth, character |-> off % LineWidth]

PosLt(a, b) ==
    \/ a.line < b.line
    \/ a.line = b.line /\ a.character < b.character

Range(s, e) == [start |-> Position(s), end |-> Position(e)]

----------------------------------------------------------------------------
(* The AST: an arena of nodes; node 1 is the root.  The nodes of a shape   *)
(* are numbered in source (pre-)order; the Name child of a declaration     *)
(* follows them in the arena and holds the declared name as its content.   *)

DecKinds == {"ConstantDec", "VariableDec", "TypeDec"}
NodeKinds == DecKinds \cup {"Scope", "Other"}
Names == <<"a", "b">>

CanHaveChildren(kind) == kind \in {"Root", "Scope", "Other"}

RECURSIVE RightPath(_, _)
\* the nodes from node i up to the root that may take a further child
RightPath(shape, i) ==
    IF i = 0 THEN {}
    ELSE (IF CanHaveChildren(shape[i].kind) THEN {i} ELSE {})
            \cup RightPath(shape, shape[i].parent)

RECURSIVE Shapes(_)
\* every tree of n non-root nodes, numbered in source order
Shapes(n) ==
    IF n = 0 THEN {<<[kind |-> "Root", parent |-> 0]>>}
    ELSE UNION { { Append(s, [kind |-> k, parent |-> p]) :
                     k \in NodeKinds, p \in RightPath(s, Len(s)) } :
                 s \in Shapes(n - 1) }

AllShapes == UNION { Shapes(n) : n \in 0..MaxNodes }

RECURSIVE Ascending(_)
Ascending(S) ==
    IF S = {} THEN <<>>
    ELSE LET m == CHOOSE x \in S : \A y \in S : x <= y
         IN <<m>> \o Ascending(S \ {m})

ShapeChildren(shape, i) == { j \in 1..Len(shape) : shape[j].parent = i }

RECURSIVE Width(_, _, _), WidthSum(_, _, _)
\* a node other than the root takes an opening and a closing character
\* around its children; every child is preceded by `gap` blanks (siblings
\* either touch or have a position strictly between them)
Width(shape, gap, i) ==
    (IF i = 1 THEN 0 ELSE 2) + WidthSum(shape, gap, ShapeChildren(shape, i))
WidthSum(shape, gap, S) ==
    IF S = {} THEN 0
    ELSE LET c == CHOOSE x \in S : TRUE
         IN gap + Width(shape, gap, c) + WidthSum(shape, gap, S \ {c})

RECURSIVE Start(_, _, _)
Start(shape, gap, i) ==
    IF i = 1 THEN 0
    ELSE LET p == shape[i].parent
         IN Start(shape, gap, p) + (IF p = 1 THEN 0 ELSE 1)
              + WidthSum(shape, gap, { c \in ShapeChildren(shape, p) : c < i })
              + gap

Gaps == {0, 2}

ShapeDecs(shape) == { i \in 1..Len(shape) : shape[i].kind \in DecKinds }

\* the file of a shape; the declarations in `named` have their Name child
MkAstNamed(shape, gap, named) ==
    LET n == Len(shape)
        decs == Ascending(ShapeDecs(shape) \cap named)
    IN [ arena |->
           [ i \in 1..(n + Len(decs)) |->
               IF i <= n
               THEN [ kind    |-> shape[i].kind,
                      range   |-> Range(Start(shape, gap, i),
                                        Start(shape, gap, i) + Width(shape, gap, i)),
                      content |-> "",
                      parent  |-> shape[i].parent ]
               ELSE [ kind    |-> "Name",
                      range   |-> Range(Start(shape, gap, decs[i - n]) + 1,
                                        Start(shape, gap, decs[i - n]) + 2),
                      content |-> Names[(decs[i - n] % Len(Names)) + 1],
                      parent  |-> decs[i - n] ] ],
         root_id |-> 1 ]

\* a file in which every declaration has its name
MkAst(shape, gap) == MkAstNamed(shape, gap, ShapeDecs(shape))

Asts == { MkAst(s, g) : s \in AllShapes, g \in Gaps }

\* the end of the longest generated file, as an offset
MaxOffset == MaxNodes * 4

Positions == { Position(o) : o \in 0..(MaxOffset + 1) }

\* VisitNode::get_children: the direct children, in source order
get_children(a, n) ==
    Ascending({ j \in 1..Len(a.arena) : a.arena[j].parent = n })

\* VisitNode::get_child_of_kind: the first direct child of that kind
get_child_of_kind(a, n, kind) ==
    LET hits == { j \in 1..Len(a.arena) :
                    a.arena[j].parent = n /\ a.arena[j].kind = kind }
    IN IF hits = {} THEN None
       ELSE Some(CHOOSE j \in hits : \A k \in hits : j <= k)

RECURSIVE get_subscopes(_, _), subscopes_of(_, _, _)
\* VisitNode::get_subscopes: the nearest scope-introducing descendants, in
\* source order
get_subscopes(a, n) == subscopes_of(a, get_children(a, n), 1)
subscopes_of(a, children, k) ==
    IF k > Len(children) THEN <<>>
    ELSE (IF a.arena[children[k]].kind = "Scope"
          THEN <<children[k]>>
          ELSE get_subscopes(a, children[k]))
         \o subscopes_of(a, children, k + 1)

----------------------------------------------------------------------------
(* metadata/symbol_table.rs *)

Symbol_new(name, def_position, type_) ==
    [name |-> name, def_position |-> def_position, type_ |-> type_,
     usages |-> <<>>]

Symbols_default ==
    [types |-> <<>>, constants |-> <<>>, variables |-> <<>>, functions |-> <<>>]

RECURSIVE parse_children(_, _, _, _)
\* the loop of ScopeSymbolTable::parse over the children of the scope node;
\* get_child_of_kind(NodeKind::Name).unwrap() panics on a declaration that
\* has no Name child
parse_children(symbols, a, children, k) ==
    IF k > Len(children) THEN symbols
    ELSE LET child_node == a.arena[children[k]]
             name_node == get_child_of_kind(a, children[k], "Name")
             name == a.arena[name_node.val].content
             symbol == Symbol_new(name, child_node.range, None)
         IN IF child_node.kind \in DecKinds /\ ~name_node.some THEN Panic
            ELSE parse_children(
                    CASE child_node.kind = "ConstantDec" ->
                            [symbols EXCEPT !.constants = Append(@, symbol)]
                      [] child_node.kind = "VariableDec" ->
                            [symbols EXCEPT !.variables = Append(@, symbol)]
                      [] child_node.kind = "TypeDec" ->
                            [symbols EXCEPT !.types = Append(@, symbol)]
                      [] OTHER -> symbols,
                    a, children, k + 1)

Reverse(seq) == [i \in 1..Len(seq) |-> seq[Len(seq) + 1 - i]]

\* a build that walks the children of the scope node last to first
ScopeSymbolTable_parse_reversed(a, root_visit_node) ==
    LET symbols == parse_children(Symbols_default, a,
                                  Reverse(get_children(a, root_visit_node)), 1)
    IN IF symbols = Panic THEN Panic
       ELSE [range |-> a.arena[root_visit_node].range, symbols |-> symbols]

\* the table of one scope, or Panic when the loop over its children panics
ScopeSymbolTable_parse(a, root_visit_node) ==
    LET symbols == parse_children(Symbols_default, a,
                                  get_children(a, root_visit_node), 1)
    IN IF symbols = Panic THEN Panic
       ELSE [range |-> a.arena[root_visit_node].range, symbols |-> symbols]

SymbolTable_default == [arena |-> <<>>, root_id |-> None]

SeqToSet(seq) == { seq[i] : i \in 1..Len(seq) }

\* indextree: the nodes of the arena below node id, id included
RECURSIVE Subtree(_, _)
Subtree(table, id) ==
    {id} \cup UNION { Subtree(table, c) : c \in SeqToSet(table.arena[id].children) }

RECURSIVE parse_scope(_, _, _), parse_subscopes(_, _, _, _, _),
          parse_subscopes_flat(_, _, _, _, _)
\* a loop that appends every subtable to the first node of the arena
parse_subscopes_flat(arena, node_id, subscopes, k, a) ==
    IF k > Len(subscopes) THEN [arena |-> arena, id |-> node_id]
    ELSE LET sub == parse_scope(arena, subscopes[k], a)
         IN IF sub = Panic THEN Panic
            ELSE parse_subscopes_flat(
                    [sub.arena EXCEPT ![1].children = Append(@, sub.id)],
                    node_id, subscopes, k + 1, a)

\* returns the arena after the call and the id of the node it created, or
\* Panic when the build of one of its scopes panics
parse_scope(arena, visit_node, a) ==
    LET table == ScopeSymbolTable_parse(a, visit_node)
        arena1 == Append(arena, [range |-> table.range,
                                 symbols |-> table.symbols,
                                 children |-> <<>>])
        node_id == Len(arena1)
    IN IF table = Panic THEN Panic
       ELSE parse_subscopes(arena1, node_id, get_subscopes(a, visit_node), 1, a)
\* the loop of parse_scope over the subscopes of node_id
parse_subscopes(arena, node_id, subscopes, k, a) ==
    IF k > Len(subscopes) THEN [arena |-> arena, id |-> node_id]
    ELSE LET sub == parse_scope(arena, subscopes[k], a)
         IN IF sub = Panic THEN Panic
            ELSE parse_subscopes(
                    [sub.arena EXCEPT ![node_id].children = Append(@, sub.id)],
                    node_id, subscopes, k + 1, a)

\* SymbolTable::new: the table, or Panic when the build panics
SymbolTable_new(a) ==
    LET built == parse_scope(SymbolTable_default.arena, a.root_id, a)
    IN IF built = Panic THEN Panic
       ELSE [arena |-> built.arena, root_id |-> Some(built.id)]

\* a filter that keeps a declaration ending exactly at position
RetainInclusive(list, position) ==
    SelectSeq(list, LAMBDA s : ~PosLt(position, s.def_position.end))

Retain(list, position) ==
    SelectSeq(list, LAMBDA s : PosLt(s.def_position.end, position))

position_filter(symbols, position) ==
    [ types     |-> Retain(symbols.types, position),
      constants |-> Retain(symbols.constants, position),
      variables |-> Retain(symbols.variables, position),
      functions |-> Retain(symbols.functions, position) ]

\* a merge that filters the symbols merged so far again
Symbols_add_refilter(self, other, position) ==
    position_filter(
        [ types     |-> self.types \o other.types,
          constants |-> self.constants \o other.constants,
          variables |-> self.variables \o other.variables,
          functions |-> self.functions \o other.functions ], position)

Symbols_add(self, other, position) ==
    LET filtered == position_filter(other, position)
    IN [ types     |-> self.types \o filtered.types,
         constants |-> self.constants \o filtered.constants,
         variables |-> self.variables \o filtered.variables,
         functions |-> self.functions \o filtered.functions ]

\* the scope the `for` loop of get_symbols_in_scope breaks on: the first
\* child whose range strictly contains position, 0 when there is none
ContainsStartOnly(scope, position) == PosLt(scope.range.start, position)

\* a test that takes the two ends of the range in
ContainsInclusive(scope, position) ==
    ~PosLt(position, scope.range.start) /\ ~PosLt(scope.range.end, position)

Contains(scope, position) ==
    PosLt(scope.range.start, position) /\ PosLt(position, scope.range.end)

EnteredChild(table, current_scope_id, position) ==
    LET children == table.arena[current_scope_id].children
        hits == { k \in 1..Len(children) :
                    Contains(table.arena[children[k]], position) }
    IN IF hits = {} THEN 0
       ELSE children[CHOOSE k \in hits : \A j \in hits : k <= j]

RECURSIVE descend(_, _, _, _)
descend(table, current_scope_id, symbols, position) ==
    LET child_id == EnteredChild(table, current_scope_id, position)
    IN IF child_id = 0 THEN symbols
       ELSE descend(table, child_id,
                    Symbols_add(symbols, table.arena[child_id].symbols, position),
                    position)

get_symbols_in_scope(table, position) ==
    IF ~table.root_id.some THEN None
    ELSE Some(descend(table, table.root_id.val,
                      table.arena[table.root_id.val].symbols, position))

get_top_level_symbols(table) ==
    IF ~table.root_id.some THEN None
    ELSE Some(table.arena[table.root_id.val].symbols)

\* the body is todo!(): every call panics
get_symbol_at_pos(table, symbol, position) == Panic

----------------------------------------------------------------------------
(* metadata/st_manager.rs *)

Categories == {"types", "constants", "variables", "functions"}

\* the symbols of a table, each named by its scope, category and index
SymbolRefs(table) ==
    { <<scope, cat, k>> \in (1..Len(table.arena)) \X Categories \X (1..MaxNodes) :
        k <= Len(table.arena[scope].symbols[cat]) }

\* SymbolTable::rename_symbol: the symbol's name is replaced in place
rename_symbol(table, symbol_id, new_name) ==
    [table EXCEPT
        !.arena[symbol_id[1]].symbols[symbol_id[2]][symbol_id[3]].name = new_name]

SymbolTableManager_new(a) == [symbol_table |-> SymbolTable_new(a)]

\* the manager after new_edit(edit)
new_edit(self, edit) ==
    [symbol_table |-> rename_symbol(self.symbol_table, edit.symbol_id,
                                    edit.new_name)]

\* a rebuild whose result is dropped instead of assigned to *self
update_without_assign(self, a) == self

\* the manager after update(ast): *self = SymbolTableManager::new(ast)
update(self, a) == SymbolTableManager_new(a)

NewNames == {"z"}

\* the documents a change event may bring: the same text again, or one of
\* the files of at most one declaration or scope
UpdateAsts(a) ==
    {a} \cup { MkAst(s, g) : s \in Shapes(0) \cup Shapes(1), g \in Gaps }

----------------------------------------------------------------------------
(* main.rs: the LSP backend.  A text is a file before parsing; the parser  *)
(* gives every node its range.                                             *)

Urls == {"main.p4", "other.p4"}
DiskUrls == {"main.p4"}

Texts == { [shape |-> sh, gap |-> 0] : sh \in Shapes(0) \cup Shapes(1) }
EmptyText == [shape |-> <<[kind |-> "Root", parent |-> 0]>>, gap |-> 0]

NoFile == [present |-> FALSE]

\* Parser::parse: the tree of a text
Parse(text) == MkAst(text.shape, text.gap).arena

File(content) == [present |-> TRUE, content |-> content, tree |-> Some(Parse(content))]

PosLe(a, b) == ~PosLt(b, a)

\* Node::named_descendant_for_point_range(point, point): from the root down,
\* into the first child whose range holds the point
RECURSIVE descendant_for_point(_, _, _)
descendant_for_point(tree, n, point) ==
    LET hits == { j \in 1..Len(tree) :
                    /\ tree[j].parent = n
                    /\ PosLe(tree[j].range.start, point)
                    /\ PosLe(point, tree[j].range.end) }
    IN IF hits = {} THEN n
       ELSE descendant_for_point(tree, CHOOSE j \in hits : \A k \in hits : j <= k,
                                 point)

InitBackend ==
    /\ docs = [u \in Urls |-> IF u \in DiskUrls THEN Some(disk) ELSE None]
    /\ files = [u \in Urls |-> NoFile]

Initialized == \E u \in Urls : files[u].present

\* Backend::initialize: every .p4 file of the root directory is read and parsed
Initialize ==
    /\ ~Initialized
    /\ files' = [u \in Urls |-> IF u \in DiskUrls THEN File(disk) ELSE files[u]]
    /\ op' = [name |-> "initialize"]
    /\ result' = Unit
    /\ UNCHANGED <<disk, docs, managerVars, rebuildVars, registryVars>>

\* Backend::did_change: the editor's text of the document has changed; the
\* handler logs "document changed!" and returns
DidChange ==
    /\ Initialized
    /\ \E u \in Urls, text \in Texts :
        /\ docs' = [docs EXCEPT ![u] = Some(text)]
        /\ op' = [name |-> "did_change", uri |-> u]
    /\ result' = Unit
    /\ UNCHANGED <<disk, files, managerVars, rebuildVars, registryVars>>

\* what Backend::hover answers from state.files
hover(state_files, file_uri, pos) ==
    IF ~state_files[file_uri].present THEN Panic
    ELSE LET tree == state_files[file_uri].tree.val
         IN Some(tree[descendant_for_point(tree, 1, pos)].kind)

Hover ==
    /\ Initialized
    /\ \E u \in Urls, pos \in Positions :
        /\ result' = hover(files, u, pos)
        /\ op' = [name |-> "hover", uri |-> u, position |-> pos]
    /\ UNCHANGED <<backendVars, managerVars, rebuildVars, registryVars>>

EmptyAst == MkAst(<<[kind |-> "Root", parent |-> 0]>>, 0)

\* the files the manager is constructed on
ManagerAsts ==
    { MkAst(s, g) : s \in UNION { Shapes(n) : n \in 0..MaxManagerNodes },
                    g \in Gaps }

InitManager ==
    /\ ast \in ManagerAsts
    /\ symbol_table = SymbolTableManager_new(ast).symbol_table
    /\ edits = 0

\* a table on its own: SymbolTable::new(ast), or SymbolTable::default()
InitTable ==
    /\ \/ ast \in Asts /\ symbol_table = SymbolTable_new(ast)
       \/ ast = EmptyAst /\ symbol_table = SymbolTable_default
    /\ edits = 0

InitRebuild ==
    /\ pc = "idle"
    /\ next_ast = EmptyAst
    /\ building = SymbolTable_default

InitRegistry ==
    /\ instance_cell = None
    /\ calls = 0
    /\ loads_ok = 0
    /\ loaded_def = None

Init ==
    /\ InitManager
    /\ InitRebuild
    /\ InitRegistry
    /\ disk = EmptyText
    /\ InitBackend
    /\ op = [name |-> "new"]
    /\ result = None

Update ==
    \E a \in UpdateAsts(ast) :
        /\ symbol_table' = update([symbol_table |-> symbol_table], a).symbol_table
        /\ ast' = a
        /\ op' = [name |-> "update", edits |-> edits]
        /\ edits' = 0
        /\ result' = Unit
        /\ UNCHANGED <<rebuildVars, registryVars, backendVars>>

NewEdit ==
    /\ edits < MaxEdits
    /\ \E symbol_id \in SymbolRefs(symbol_table), new_name \in NewNames :
        /\ symbol_table' =
              new_edit([symbol_table |-> symbol_table],
                       [symbol_id |-> symbol_id, new_name |-> new_name]).symbol_table
        /\ op' = [name |-> "new_edit", symbol_id |-> symbol_id]
    /\ edits' = edits + 1
    /\ result' = Unit
    /\ UNCHANGED <<ast, rebuildVars, registryVars, backendVars>>

GetSymbolsAtPos ==
    \E position \in Positions :
        /\ result' = get_symbols_in_scope(symbol_table, position)
        /\ op' = [name |-> "get_symbols_in_scope", position |-> position]
        /\ UNCHANGED <<managerVars, rebuildVars, registryVars, backendVars>>

GetTopLevelSymbols ==
    /\ result' = get_top_level_symbols(symbol_table)
    /\ op' = [name |-> "get_top_level_symbols"]
    /\ UNCHANGED <<managerVars, rebuildVars, registryVars, backendVars>>

\* the positions get_symbol_at_pos is asked at
NamedQueryPositions == { Position(0), Position(MaxOffset) }

GetSymbolAtPos ==
    \E position \in NamedQueryPositions :
        /\ result' = get_symbol_at_pos(symbol_table, Names[1], position)
        /\ op' = [name |-> "get_symbol_at_pos", position |-> position]
        /\ UNCHANGED <<managerVars, rebuildVars, registryVars, backendVars>>

\* the editor side of the manager (SymbolTableEditor)
Next ==
    \/ Update
    \/ NewEdit

Spec == Init /\ [][Next]_vars

\* the queries of SymbolTableActions on a table built from any file
InitQueries ==
    /\ InitTable
    /\ InitRebuild
    /\ InitRegistry
    /\ disk = EmptyText
    /\ InitBackend
    /\ op = [name |-> "new"]
    /\ result = None

NextQueries ==
    \/ GetSymbolsAtPos
    \/ GetTopLevelSymbols
    \/ GetSymbolAtPos

SpecQueries == InitQueries /\ [][NextQueries]_vars

----------------------------------------------------------------------------
(* SymbolTable::new on its own, on any file the Ast type can hold: a       *)
(* declaration may have lost its Name child.                               *)

BuildAsts ==
    { MkAstNamed(s, g, named) :
        s \in UNION { Shapes(n) : n \in 0..MaxManagerNodes },
        g \in {0},
        named \in SUBSET (1..(MaxManagerNodes + 1)) }

\* let table = SymbolTable::new(&ast): a panic unwinds before the assignment
NewTable ==
    /\ op.name = "ast" \/ (op.name = "translate" /\ result # Panic)
    /\ LET table == SymbolTable_new(ast)
       IN /\ symbol_table' = IF table = Panic THEN symbol_table ELSE table
          /\ result' = IF table = Panic THEN Panic ELSE Unit
    /\ op' = [name |-> "SymbolTable::new"]
    /\ UNCHANGED <<ast, edits, rebuildVars, registryVars, backendVars>>

\* the next file is handed over
NextFile ==
    /\ op.name = "SymbolTable::new"
    /\ ast' \in BuildAsts
    /\ symbol_table' = SymbolTable_default
    /\ op' = [name |-> "ast"]
    /\ result' = None
    /\ UNCHANGED <<edits, rebuildVars, registryVars, backendVars>>

InitBuild ==
    /\ ast \in BuildAsts
    /\ symbol_table = SymbolTable_default
    /\ edits = 0
    /\ InitRebuild
    /\ InitRegistry
    /\ disk = EmptyText
    /\ InitBackend
    /\ op = [name |-> "ast"]
    /\ result = None

NextBuild ==
    \/ NewTable
    \/ NextFile

SpecBuild == InitBuild /\ [][NextBuild]_vars

----------------------------------------------------------------------------
(* ast/translator.rs.  The input is a tree-sitter tree and the source text *)
(* it was parsed from.  The text is a sequence of tokens, one statement    *)
(* per row, a token per column and per byte.                               *)

Absent == "absent"

\* the kinds parse_type names, and one it does not
TypeKinds == {"base_type", "type_name", "specialized_type",
              "header_stack_type", "tuple_type", "ERROR"}

TypeText(kind) ==
    CASE kind = "base_type" -> "int"
      [] kind = "type_name" -> "T"
      [] kind = "specialized_type" -> "T<int>"
      [] kind = "header_stack_type" -> "T[2]"
      [] kind = "tuple_type" -> "tuple<int>"
      [] OTHER -> "?"

Idents == {"x", "y"}

\* a top-level statement: a constant declaration, whose type and name
\* fields the tree may lack, or a declaration of another kind
Statements ==
    { [kind |-> "constant_declaration", type |-> t, name |-> n] :
        t \in TypeKinds \cup {Absent}, n \in Idents \cup {Absent} }
    \cup { [kind |-> "parser_declaration", type |-> Absent, name |-> Absent] }

StmtTokens(st) ==
    IF st.kind = "constant_declaration"
    THEN <<"const">>
            \o (IF st.type = Absent THEN <<>> ELSE <<TypeText(st.type)>>)
            \o (IF st.name = Absent THEN <<>> ELSE <<st.name>>)
            \o <<"=", "5", ";">>
    ELSE <<"parser", "p", ";">>

\* tree_sitter::Range
TsRange(row, col0, col1, byte0) ==
    [ start_byte  |-> byte0 + col0,
      end_byte    |-> byte0 + col1,
      start_point |-> [row |-> row, column |-> col0],
      end_point   |-> [row |-> row, column |-> col1] ]

\* the tree-sitter nodes of the statement on `row`, the statement node
\* (numbered stmt_id) first
StmtNodes(st, row, byte0, stmt_id) ==
    LET name_col == IF st.type = Absent THEN 1 ELSE 2
    IN <<[ kind |-> st.kind, field |-> "", parent |-> 1,
           range |-> TsRange(row, 0, Len(StmtTokens(st)), byte0) ]>>
       \o (IF st.type = Absent THEN <<>>
           ELSE <<[ kind |-> st.type, field |-> "type", parent |-> stmt_id,
                    range |-> TsRange(row, 1, 2, byte0) ]>>)
       \o (IF st.name = Absent THEN <<>>
           ELSE <<[ kind |-> "name", field |-> "name", parent |-> stmt_id,
                    range |-> TsRange(row, name_col, name_col + 1, byte0) ]>>)

RECURSIVE SourceOf(_), TreeOf(_)
SourceOf(stmts) ==
    IF stmts = <<>> THEN <<>>
    ELSE SourceOf(SubSeq(stmts, 1, Len(stmts) - 1))
            \o StmtTokens(stmts[Len(stmts)])

\* the nodes of the tree below the root, in source order
TreeOf(stmts) ==
    IF stmts = <<>> THEN <<>>
    ELSE LET before == SubSeq(stmts, 1, Len(stmts) - 1)
             nodes == TreeOf(before)
         IN nodes \o StmtNodes(stmts[Len(stmts)], Len(stmts) - 1,
                               Len(SourceOf(before)), Len(nodes) + 2)

\* a file: its text and its tree (node 1 is tree.root_node())
SourceFile(stmts) ==
    [ source_code |-> SourceOf(stmts),
      tree |->
        <<[ kind |-> "source_file", field |-> "", parent |-> 0,
            range |-> [ start_byte  |-> 0,
                        end_byte    |-> Len(SourceOf(stmts)),
                        start_point |-> [row |-> 0, column |-> 0],
                        end_point   |-> [row |-> Len(stmts), column |-> 0] ] ]>>
        \o TreeOf(stmts) ]

StatementLists == UNION { [1..n -> Statements] : n \in 0..MaxStatements }

\* utils::ts_range_to_lsp_range
ts_range_to_lsp_range(range) ==
    [ start |-> [ line      |-> range.start_point.row,
                  character |-> range.start_point.column ],
      end   |-> [ line      |-> range.end_point.row,
                  character |-> range.end_point.column ] ]

\* utils::get_node_text: the bytes of the node in the source text
get_node_text(node, source_code) ==
    SubSeq(source_code, node.range.start_byte + 1, node.range.end_byte)

\* tree_sitter::Node::children
ts_children(tree, n) ==
    Ascending({ j \in 1..Len(tree) : tree[j].parent = n })

\* tree_sitter::Node::child_by_field_name
child_by_field_name(tree, n, field) ==
    LET hits == { j \in 1..Len(tree) :
                    tree[j].parent = n /\ tree[j].field = field }
    IN IF hits = {} THEN None
       ELSE Some(CHOOSE j \in hits : \A k \in hits : j <= k)

\* indextree: Arena::new_node makes a node without a parent; NodeId::append
\* makes it the last child of another
new_node(arena, node) ==
    LET made == Append(arena, node)
    IN [arena |-> made, id |-> Len(made)]

append(arena, parent_id, new_child) ==
    [arena EXCEPT ![new_child].parent = parent_id]

\* parse_name always returns Some
parse_name(arena, tree, source_code, node) ==
    new_node(arena, [ kind    |-> "Name",
                      range   |-> ts_range_to_lsp_range(tree[node].range),
                      content |-> get_node_text(tree[node], source_code),
                      parent  |-> 0 ])

\* parse_type: todo!() or panic!() on every kind but base_type
parse_type(arena, tree, source_code, node) ==
    IF tree[node].kind # "base_type" THEN Panic
    ELSE new_node(arena, [ kind    |-> "Type",
                           type_   |-> "Base(Int)",
                           range   |-> ts_range_to_lsp_range(tree[node].range),
                           content |-> get_node_text(tree[node], source_code),
                           parent  |-> 0 ])

\* parse_const_dec: the arena and the id of the ConstantDec node, or Panic
\* where an unwrap or parse_type panics
parse_const_dec(arena, tree, source_code, node) ==
    LET dec == new_node(arena,
                   [ kind    |-> "ConstantDec",
                     range   |-> ts_range_to_lsp_range(tree[node].range),
                     content |-> get_node_text(tree[node], source_code),
                     parent  |-> 0 ])
        type_field == child_by_field_name(tree, node, "type")
        type_node == parse_type(dec.arena, tree, source_code, type_field.val)
        with_type == append(type_node.arena, dec.id, type_node.id)
        name_field == child_by_field_name(tree, node, "name")
        name_node == parse_name(with_type, tree, source_code, name_field.val)
    IN IF ~type_field.some THEN Panic
       ELSE IF type_node = Panic THEN Panic
       ELSE IF ~name_field.some THEN Panic
       ELSE [ arena |-> append(name_node.arena, dec.id, name_node.id),
              id    |-> dec.id ]

RECURSIVE parse_root_children(_, _, _, _, _, _)
\* the loop of parse_root over the children of the root of the tree
parse_root_children(arena, ast_root, tree, source_code, children, k) ==
    IF k > Len(children) THEN [arena |-> arena, id |-> ast_root]
    ELSE LET child == children[k]
             new_child == IF tree[child].kind = "constant_declaration"
                          THEN parse_const_dec(arena, tree, source_code, child)
                          ELSE None
         IN IF new_child = Panic THEN Panic
            ELSE IF new_child = None
            THEN parse_root_children(arena, ast_root, tree, source_code,
                                     children, k + 1)
            ELSE parse_root_children(
                    append(new_child.arena, ast_root, new_child.id),
                    ast_root, tree, source_code, children, k + 1)

parse_root(tree, source_code) ==
    LET ast_root == new_node(<<>>,
                        [ kind    |-> "Root",
                          range   |-> ts_range_to_lsp_range(tree[1].range),
                          content |-> source_code,
                          parent  |-> 0 ])
    IN parse_root_children(ast_root.arena, ast_root.id, tree, source_code,
                           ts_children(tree, 1), 1)

\* TreesitterTranslator::translate: the Ast, or Panic
translate(source_code, tree) ==
    LET root == parse_root(tree, source_code)
    IN IF root = Panic THEN Panic
       ELSE [arena |-> root.arena, root_id |-> Some(root.id)]

\* the Ast as the symbol table visits it, from its root
visit_root(translated) ==
    [arena |-> translated.arena, root_id |-> translated.root_id.val]

\* a file is translated, the first one or the next one once the table of
\* the last one is built; a panic unwinds before anything is stored and
\* nothing follows it
Translate ==
    /\ op.name \in {"file", "SymbolTable::new"}
    /\ \E stmts \in StatementLists :
        LET file == SourceFile(stmts)
            translated == translate(file.source_code, file.tree)
        IN /\ op' = [ name |-> "translate", statements |-> stmts,
                      source_code |-> file.source_code, tree |-> file.tree ]
           /\ result' = IF translated = Panic THEN Panic ELSE Some(translated)
           /\ ast' = IF translated = Panic THEN EmptyAst
                     ELSE visit_root(translated)
    /\ symbol_table' = SymbolTable_default
    /\ UNCHANGED <<edits, rebuildVars, registryVars, backendVars>>

InitTranslate ==
    /\ ast = EmptyAst
    /\ symbol_table = SymbolTable_default
    /\ edits = 0
    /\ InitRebuild
    /\ InitRegistry
    /\ disk = EmptyText
    /\ InitBackend
    /\ op = [name |-> "file"]
    /\ result = None

NextTranslate ==
    \/ Translate
    \/ NewTable

SpecTranslate == InitTranslate /\ [][NextTranslate]_vars

----------------------------------------------------------------------------------------------------------------------------------------
(* A rebuild, step by step: update(ast) builds the new table in the local  *)
(* of SymbolTable::new and assigns it to *self when it is complete.        *)
(* Queries are let in between any two steps: the exclusive borrow of       *)
(* update (&mut self) and the Mutex of Backend only take interleavings     *)
(* away.                                                                   *)

RebuildAsts ==
    { MkAst(s, g) :
        s \in { sh \in Shapes(0) \cup Shapes(1) \cup Shapes(2) :
                  \/ Len(sh) = 1
                  \/ \E j \in 1..Len(sh) : sh[j].kind = "Scope" },
        g \in Gaps }

\* the local table of SymbolTable::new when k arena nodes are created: a
\* node is appended to its parent once parse_scope has returned for it, and
\* root_id is set last
PartialTable(full, k) ==
    [ arena |->
        [ i \in 1..k |->
            [ full.arena[i] EXCEPT
                !.children = SelectSeq(@, LAMBDA c :
                                \A d \in Subtree(full, c) : d <= k) ] ],
      root_id |-> None ]

\* a rebuild that works on the table of the manager itself
SelfBuiltInPlace(self_table, local_table) == local_table

\* self.symbol_table while SymbolTableManager::new(ast) runs: untouched
SelfDuringBuild(self_table, local_table) == self_table

BeginUpdate ==
    /\ pc = "idle"
    /\ \E a \in RebuildAsts : next_ast' = a
    /\ pc' = "building"
    /\ building' = SymbolTable_default
    /\ symbol_table' = SelfDuringBuild(symbol_table, building')
    /\ op' = [name |-> "update"]
    /\ result' = None
    /\ UNCHANGED <<ast, edits, registryVars, backendVars>>

BuildStep ==
    /\ pc = "building"
    /\ Len(building.arena) < Len(SymbolTable_new(next_ast).arena)
    /\ building' = PartialTable(SymbolTable_new(next_ast), Len(building.arena) + 1)
    /\ symbol_table' = SelfDuringBuild(symbol_table, building')
    /\ op' = [name |-> "parse_scope"]
    /\ result' = None
    /\ UNCHANGED <<ast, edits, pc, next_ast, registryVars, backendVars>>

FinishBuild ==
    /\ pc = "building"
    /\ Len(building.arena) = Len(SymbolTable_new(next_ast).arena)
    /\ building' = [building EXCEPT !.root_id = SymbolTable_new(next_ast).root_id]
    /\ symbol_table' = SelfDuringBuild(symbol_table, building')
    /\ pc' = "built"
    /\ op' = [name |-> "new"]
    /\ result' = None
    /\ UNCHANGED <<ast, edits, next_ast, registryVars, backendVars>>

Swap ==
    /\ pc = "built"
    /\ symbol_table' = building
    /\ ast' = next_ast
    /\ edits' = 0
    /\ pc' = "idle"
    /\ building' = SymbolTable_default
    /\ op' = [name |-> "assign"]
    /\ result' = Unit
    /\ UNCHANGED <<next_ast, registryVars, backendVars>>

QueryDuringRebuild ==
    \E position \in Positions :
        /\ result' = get_symbols_in_scope(symbol_table, position)
        /\ op' = [name |-> "get_symbols_in_scope", position |-> position]
        /\ UNCHANGED <<managerVars, rebuildVars, registryVars, backendVars>>

InitRebuildSpec ==
    /\ ast \in RebuildAsts
    /\ symbol_table = SymbolTableManager_new(ast).symbol_table
    /\ edits = 0
    /\ InitRebuild
    /\ InitRegistry
    /\ disk = EmptyText
    /\ InitBackend
    /\ op = [name |-> "new"]
    /\ result = None

NextRebuild ==
    \/ BeginUpdate
    \/ BuildStep
    \/ FinishBuild
    \/ Swap
    \/ QueryDuringRebuild

SpecRebuild == InitRebuildSpec /\ [][NextRebuild]_vars

----------------------------------------------------------------------------
(* The backend of main.rs *)

InitBackendSpec ==
    /\ ast = EmptyAst
    /\ symbol_table = SymbolTable_default
    /\ edits = 0
    /\ InitRebuild
    /\ InitRegistry
    /\ disk \in Texts
    /\ InitBackend
    /\ op = [name |-> "main"]
    /\ result = None

NextBackend == Initialize \/ DidChange \/ Hover

SpecBackend == InitBackendSpec /\ [][NextBackend]_vars

----------------
(* ls_framework/src/language_def.rs *)

\* the entries a rule-set document is written from: two rules and a
\* truncated one
RuleTexts == {"(name:Block,is_scope:true)", "(name:ConstantDec)", "(name:"}

Documents == UNION { [1..n -> RuleTexts] : n \in 0..MaxRules }

Header == "#![enable(unwrap_variant_newtypes)]"

\* format!("#![enable(unwrap_variant_newtypes)]\n{language_definition}")
Format(language_definition) == <<Header>> \o language_definition

\* serde's reading of one Rule, with its #[serde(default)] fields
ParseRule(text) ==
    CASE text = "(name:Block,is_scope:true)" ->
            [ok |-> TRUE, rule |-> [name |-> "Block", is_scope |-> TRUE,
                                    symbol |-> "None", children |-> <<>>]]
      [] text = "(name:ConstantDec)" ->
            [ok |-> TRUE, rule |-> [name |-> "ConstantDec", is_scope |-> FALSE,
                                    symbol |-> "None", children |-> <<>>]]
      [] OTHER -> [ok |-> FALSE, rule |-> None]

\* ron::de::from_str::<LanguageDefinition>
from_str(text) ==
    IF text = <<>> \/ text[1] # Header
          \/ \E i \in 2..Len(text) : ~ParseRule(text[i]).ok
    THEN [ok |-> FALSE, val |-> None]
    ELSE [ok |-> TRUE,
          val |-> [symbol_types |-> <<>>,
                   ast_rules |-> [i \in 1..(Len(text) - 1) |->
                                     ParseRule(text[i + 1]).rule]]]

\* a load that stores the definition over one already stored
LanguageDefinition_load_overwrite(cell, language_definition) ==
    LET parsed == from_str(Format(language_definition))
    IN IF ~parsed.ok THEN [cell |-> cell, outcome |-> Panic]
       ELSE [cell |-> Some(parsed.val), outcome |-> Unit]

\* LanguageDefinition::load: the cell after the call and what the call did.
\* The argument of set is evaluated first, so a malformed document panics
\* whether or not the cell is set; set on a set cell is an Err, unwrapped.
LanguageDefinition_load(cell, language_definition) ==
    LET parsed == from_str(Format(language_definition))
    IN IF ~parsed.ok THEN [cell |-> cell, outcome |-> Panic]
       ELSE IF cell.some THEN [cell |-> cell, outcome |-> Panic]
       ELSE [cell |-> Some(parsed.val), outcome |-> Unit]

\* a get that hands out an empty definition when nothing is loaded
LanguageDefinition_get_or_default(cell) ==
    IF cell.some THEN Some(cell.val)
    ELSE Some([symbol_types |-> <<>>, ast_rules |-> <<>>])

\* LanguageDefinition::get
LanguageDefinition_get(cell) ==
    IF cell.some THEN Some(cell.val) ELSE Panic

\* A panic unwinds the calling thread or task only: later calls may follow.
Load ==
    /\ calls < MaxCalls
    /\ \E doc \in Documents :
        LET done == LanguageDefinition_load(instance_cell, doc)
        IN /\ instance_cell' = done.cell
           /\ result' = done.outcome
           /\ op' = [name |-> "load", doc |-> doc,
                     loaded_before |-> instance_cell.some]
           /\ loads_ok' = IF done.outcome = Unit THEN loads_ok + 1 ELSE loads_ok
           /\ loaded_def' = IF done.outcome = Unit /\ loads_ok = 0
                            THEN done.cell ELSE loaded_def
    /\ calls' = calls + 1
    /\ UNCHANGED <<managerVars, rebuildVars, backendVars>>

Get ==
    /\ calls < MaxCalls
    /\ result' = LanguageDefinition_get(instance_cell)
    /\ op' = [name |-> "get"]
    /\ calls' = calls + 1
    /\ UNCHANGED <<instance_cell, loads_ok, loaded_def>>
    /\ UNCHANGED <<managerVars, rebuildVars, backendVars>>

InitRegistrySpec ==
    /\ ast = EmptyAst
    /\ symbol_table = SymbolTable_default
    /\ edits = 0
    /\ InitRebuild
    /\ InitRegistry
    /\ disk = EmptyText
    /\ InitBackend
    /\ op = [name |-> "main"]
    /\ result = None

NextRegistry == Load \/ Get

SpecRegistry == InitRegistrySpec /\ [][NextRegistry]_vars

----------------
(* Vocabulary of the properties *)

IsPrefix(pre, seq) ==
    /\ Len(pre) <= Len(seq)
    /\ \A i \in 1..Len(pre) : seq[i] = pre[i]

Built == symbol_table.root_id.some

RootScope == symbol_table.arena[symbol_table.root_id.val]

InScopeQuery == op.name = "get_symbols_in_scope" /\ Built

\* the scopes from the root down to scope id
Chain(table, id) == { k \in 1..Len(table.arena) : id \in Subtree(table, k) }

\* position p lies in the half-open range [start, end) of the scope
InRange(scope, p) == ~PosLt(p, scope.range.start) /\ PosLt(p, scope.range.end)

\* the scopes get_symbols_in_scope walks through for position p
RECURSIVE Entered(_, _, _)
Entered(table, id, p) ==
    {id} \cup (IF EnteredChild(table, id, p) = 0 THEN {}
               ELSE Entered(table, EnteredChild(table, id, p), p))

\* the scopes that hold symbol sym in category cat
Owners(table, cat, sym) ==
    { k \in 1..Len(table.arena) : sym \in SeqToSet(table.arena[k].symbols[cat]) }

----------------------------------------------------------------------------
(* C1: whatever the position of a get_symbols_in_scope query, the result   *)
(* starts, in every category, with the complete symbol list of the root    *)
(* scope: no root symbol is filtered out, whether declared before or after *)
(* the position, and no later merge filters them again.                    *)
C1_RootSymbolsAlwaysVisible ==
    InScopeQuery =>
        /\ result.some
        /\ \A cat \in Categories :
              IsPrefix(RootScope.symbols[cat], result.val[cat])

\* a query strictly inside a nested scope, with a root symbol declared after
\* the position and one declared before it, both returned
C1_Witness ==
    /\ InScopeQuery
    /\ EnteredChild(symbol_table, symbol_table.root_id.val, op.position) # 0
    /\ \E cat \in Categories :
        \E s1, s2 \in SeqToSet(RootScope.symbols[cat]) :
            /\ PosLt(op.position, s1.def_position.start)
            /\ PosLt(s2.def_position.end, op.position)
            /\ {s1, s2} \subseteq SeqToSet(result.val[cat])

(* C2: for every nested scope the walk of get_symbols_in_scope(position)   *)
(* enters, a symbol of that scope is in the result if and only if its      *)
(* declaration range ends strictly before position.                        *)
C2_DeclareBeforeUse ==
    InScopeQuery =>
        \A s \in Entered(symbol_table, symbol_table.root_id.val, op.position)
                    \ {symbol_table.root_id.val} :
            \A cat \in Categories :
                \A sym \in SeqToSet(symbol_table.arena[s].symbols[cat]) :
                    (sym \in SeqToSet(result.val[cat]))
                        <=> PosLt(sym.def_position.end, op.position)

\* a block with `var a`, a use, then `var b`: a is returned and b is not
C2_Witness ==
    /\ InScopeQuery
    /\ \E s \in Entered(symbol_table, symbol_table.root_id.val, op.position)
                    \ {symbol_table.root_id.val} :
        \E va, vb \in SeqToSet(symbol_table.arena[s].symbols.variables) :
            /\ PosLt(va.def_position.end, op.position)
            /\ PosLt(op.position, vb.def_position.start)
            /\ va \in SeqToSet(result.val.variables)
            /\ vb \notin SeqToSet(result.val.variables)

(* C3 as stated: for every scope S and every position p in [s, e) of S,    *)
(* every symbol returned belongs to a scope on the chain root -> ... -> S. *)
C3_OnlyChainOfAnyScope ==
    InScopeQuery =>
        \A S \in 1..Len(symbol_table.arena) :
            InRange(symbol_table.arena[S], op.position) =>
                \A cat \in Categories :
                    \A sym \in SeqToSet(result.val[cat]) :
                        Owners(symbol_table, cat, sym) \subseteq Chain(symbol_table, S)

(* C3 as amended: for every scope S and every position p in [s, e) of S,   *)
(* every symbol returned belongs to a scope on the chain root -> ... -> S  *)
(* or to a scope nested inside S, never to a sibling or otherwise disjoint *)
(* scope; and when no scope nested inside S has p in its range, every      *)
(* symbol returned belongs to the chain root -> ... -> S.                  *)
C3_NoDisjointScope ==
    InScopeQuery =>
        \A S \in 1..Len(symbol_table.arena) :
            InRange(symbol_table.arena[S], op.position) =>
                \A cat \in Categories :
                    \A sym \in SeqToSet(result.val[cat]) :
                        /\ Owners(symbol_table, cat, sym) \subseteq
                              Chain(symbol_table, S) \cup Subtree(symbol_table, S)
                        /\ (\A T \in Subtree(symbol_table, S) \ {S} :
                                ~InRange(symbol_table.arena[T], op.position))
                            => Owners(symbol_table, cat, sym) \subseteq
                                  Chain(symbol_table, S)

\* a query inside a scope whose sibling scope holds a symbol declared before
\* the position: the scope's own symbol is returned, the sibling's is not
C3_Witness ==
    /\ InScopeQuery
    /\ \E S, T \in 1..Len(symbol_table.arena) :
        /\ S \notin Subtree(symbol_table, T) /\ T \notin Subtree(symbol_table, S)
        /\ InRange(symbol_table.arena[S], op.position)
        /\ S \in Entered(symbol_table, symbol_table.root_id.val, op.position)
        /\ \E cat \in Categories :
            \E sym \in SeqToSet(symbol_table.arena[T].symbols[cat]) :
                /\ PosLt(sym.def_position.end, op.position)
                /\ sym \notin SeqToSet(result.val[cat])

\* the symbols declared by the direct children of kind `kind` of AST node n,
\* in source order
NameOf(a, d) ==
    a.arena[CHOOSE j \in 1..Len(a.arena) :
                a.arena[j].parent = d /\ a.arena[j].kind = "Name"].content

Declared(a, n, kind) ==
    LET ids == Ascending({ j \in 1..Len(a.arena) :
                             a.arena[j].parent = n /\ a.arena[j].kind = kind })
    IN [ i \in 1..Len(ids) |->
           Symbol_new(NameOf(a, ids[i]), a.arena[ids[i]].range, None) ]

Declarations(a) == { j \in 1..Len(a.arena) : a.arena[j].kind \in DecKinds }

\* every node but the root is a top-level declaration or its name
OnlyTopLevelDeclarations(a) ==
    \A j \in 2..Len(a.arena) :
        \/ a.arena[j].parent = a.root_id /\ a.arena[j].kind \in DecKinds
        \/ a.arena[j].kind = "Name" /\ a.arena[j].parent \in Declarations(a)

SourceOrdered(list) ==
    \A i, j \in 1..Len(list) :
        i < j => PosLt(list[i].def_position.start, list[j].def_position.start)

(* C4: for a file of top-level declarations only, get_top_level_symbols()  *)
(* returns exactly the symbols of those declarations, each once, every     *)
(* category in source order; and every category list of every scope of a   *)
(* table is in source order of the declarations.                           *)
C4_TopLevelInDeclarationOrder ==
    /\ (op.name = "get_top_level_symbols" /\ Built /\ edits = 0
            /\ OnlyTopLevelDeclarations(ast)) =>
          /\ result = Some([ types     |-> Declared(ast, ast.root_id, "TypeDec"),
                             constants |-> Declared(ast, ast.root_id, "ConstantDec"),
                             variables |-> Declared(ast, ast.root_id, "VariableDec"),
                             functions |-> <<>> ])
          /\ Len(result.val.types) + Len(result.val.constants)
                + Len(result.val.variables) = Cardinality(Declarations(ast))
    /\ Built =>
          \A scope \in 1..Len(symbol_table.arena) :
              \A cat \in Categories :
                  SourceOrdered(symbol_table.arena[scope].symbols[cat])

\* the outline of a file of top-level declarations, two of one category
C4_Witness ==
    /\ op.name = "get_top_level_symbols" /\ Built /\ edits = 0
    /\ OnlyTopLevelDeclarations(ast)
    /\ Cardinality(Declarations(ast)) > 1
    /\ Len(result.val.constants) > 1
    /\ Len(result.val.types) > 0

(* C5: after update(ast) the manager holds the table SymbolTableManager::  *)
(* new(ast) builds, whatever it held before (renamed symbols included), so *)
(* every query answers as on a freshly built table.                        *)
C5_UpdateRebuildsWholesale ==
    op.name = "update" =>
        LET fresh == SymbolTableManager_new(ast).symbol_table
        IN /\ symbol_table = fresh
           /\ get_top_level_symbols(symbol_table) = get_top_level_symbols(fresh)
           /\ \A p \in Positions :
                 get_symbols_in_scope(symbol_table, p)
                     = get_symbols_in_scope(fresh, p)

\* an update that follows a rename, on a file that declares something
C5_Witness ==
    /\ op.name = "update"
    /\ op.edits > 0
    /\ SymbolRefs(symbol_table) # {}
    /\ Len(symbol_table.arena) > 1

(* C10: none of get_top_level_symbols, get_symbols_in_scope and            *)
(* get_symbol_at_pos panics: each returns a value or an absent value.      *)
C10_QueriesReturnOption ==
    op.name \in {"get_top_level_symbols", "get_symbols_in_scope",
                 "get_symbol_at_pos"} =>
        result # Panic /\ (result.some \/ result = None)

WellFormed(doc) ==
    \A i \in 1..Len(doc) : doc[i] \in {"(name:Block,is_scope:true)", "(name:ConstantDec)"}

(* C8: a load of a malformed document panics, a load after one that        *)
(* returned panics, at most one load ever returns, and the definition the  *)
(* first of them stored is the one the cell holds from then on.            *)
C8_LoadedExactlyOnce ==
    /\ loads_ok <= 1
    /\ (op.name = "load" /\ (~WellFormed(op.doc) \/ op.loaded_before))
          => result = Panic
    /\ instance_cell.some <=> loads_ok > 0
    /\ instance_cell.some => instance_cell = loaded_def

\* a well-formed document, other than the one loaded, is refused
C8_Witness ==
    /\ op.name = "load"
    /\ op.loaded_before
    /\ WellFormed(op.doc)
    /\ result = Panic
    /\ instance_cell.val # from_str(Format(op.doc)).val

(* C9: get() panics as long as no load has returned, and returns the       *)
(* definition the load stored once one has.                                *)
C9_GetFailsLoudlyBeforeLoad ==
    op.name = "get" =>
        IF loads_ok = 0 THEN result = Panic
        ELSE result = Some(loaded_def.val)

\* get() after a load that failed on a malformed document
C9_Witness ==
    /\ op.name = "get"
    /\ calls > 1
    /\ loads_ok = 0
    /\ result = Panic

(* C6: a query that runs while a rebuild is under way answers as the       *)
(* complete table of the prior snapshot or as the complete table of the    *)
(* next one, and the table of the manager is never a partially built one.  *)
C6_SwapOnCompletion ==
    /\ \/ symbol_table = SymbolTable_new(ast)
       \/ pc # "idle" /\ symbol_table = SymbolTable_new(next_ast)
    /\ op.name = "get_symbols_in_scope" =>
          \/ result = get_symbols_in_scope(SymbolTable_new(ast), op.position)
          \/ /\ pc # "idle"
             /\ result = get_symbols_in_scope(SymbolTable_new(next_ast), op.position)

\* a query between two steps of a build whose partial table would answer
\* otherwise than both snapshots
C6_Witness ==
    /\ op.name = "get_symbols_in_scope"
    /\ pc = "building"
    /\ Len(building.arena) > 0
    /\ Len(building.arena) < Len(SymbolTable_new(next_ast).arena)
    /\ result = get_symbols_in_scope(SymbolTable_new(ast), op.position)
    /\ result # get_symbols_in_scope(SymbolTable_new(next_ast), op.position)
    /\ result # get_symbols_in_scope(building, op.position)

(* C7: a query on a document answers from the tree of the document's       *)
(* current text: once the text has changed, no hover sees the tree of the  *)
(* text before the change.                                                 *)
C7_QueriesSeeChangedText ==
    (op.name = "hover" /\ files[op.uri].present /\ docs[op.uri].some) =>
        /\ files[op.uri].tree = Some(Parse(docs[op.uri].val))
        /\ result = hover([files EXCEPT ![op.uri] = File(docs[op.uri].val)],
                          op.uri, op.position)

----------------------------------------------------------------------------
\* the scope-introducing nodes of a file, in source order: node k of the
\* table is built from the k-th of them
ScopeNodes(a) ==
    Ascending({a.root_id} \cup { j \in 1..Len(a.arena) : a.arena[j].kind = "Scope" })

CategoryOf(kind) ==
    CASE kind = "ConstantDec" -> "constants"
      [] kind = "VariableDec" -> "variables"
      [] kind = "TypeDec" -> "types"

HasName(a, d) ==
    \E j \in 1..Len(a.arena) : a.arena[j].parent = d /\ a.arena[j].kind = "Name"

\* the declarations that are direct children of scope node n
DeclarationsOf(a, n) == { d \in Declarations(a) : a.arena[d].parent = n }

\* some symbol of the category of declaration d has the range of d
Recorded(table, t, a, d) ==
    \E sym \in SeqToSet(table.arena[t].symbols[CategoryOf(a.arena[d].kind)]) :
        sym.def_position = a.arena[d].range

(* C12: the build of a table returns, whatever the declarations of the     *)
(* file: in every scope a declaration without a Name child is left out of  *)
(* its category, and every sibling declaration that has its name is        *)
(* recorded in its category under that name.                               *)
C12_UnclassifiedDeclarationSkipped ==
    op.name = "SymbolTable::new" =>
        /\ result # Panic
        /\ symbol_table.root_id.some
        /\ Len(symbol_table.arena) = Len(ScopeNodes(ast))
        /\ \A t \in 1..Len(ScopeNodes(ast)) :
              \A d \in DeclarationsOf(ast, ScopeNodes(ast)[t]) :
                  IF HasName(ast, d)
                  THEN Symbol_new(NameOf(ast, d), ast.arena[d].range, None)
                          \in SeqToSet(symbol_table.arena[t]
                                         .symbols[CategoryOf(ast.arena[d].kind)])
                  ELSE ~Recorded(symbol_table, t, ast, d)

----------------------------------------------------------------------------
RECURSIVE Ancestors(_, _)
\* the nodes above node j of a file
Ancestors(a, j) ==
    IF a.arena[j].parent = 0 THEN {}
    ELSE {a.arena[j].parent} \cup Ancestors(a, a.arena[j].parent)

\* the scope-introducing nodes below n with no scope-introducing node
\* between n and them
NearestScopes(a, n) ==
    { sc \in 1..Len(a.arena) :
        /\ a.arena[sc].kind = "Scope"
        /\ n \in Ancestors(a, sc)
        /\ \A m \in Ancestors(a, sc) :
              n \in Ancestors(a, m) => a.arena[m].kind # "Scope" }

TableOf(a, n) == CHOOSE t \in 1..Len(ScopeNodes(a)) : ScopeNodes(a)[t] = n

(* C14: a built table has one node per scope-introducing node of the file, *)
(* each with the range of its node; its root is the node of the whole      *)
(* file; and the children of the table of node n are the tables of the     *)
(* nearest scope-introducing nodes nested in n, each once, in source       *)
(* order.                                                                  *)
C14_TableMirrorsScopeNesting ==
    Built =>
        /\ symbol_table.root_id = Some(TableOf(ast, ast.root_id))
        /\ RootScope.range = ast.arena[ast.root_id].range
        /\ Len(symbol_table.arena) = Len(ScopeNodes(ast))
        /\ \A t \in 1..Len(symbol_table.arena) :
              LET n == ScopeNodes(ast)[t]
                  nested == Ascending(NearestScopes(ast, n))
              IN /\ symbol_table.arena[t].range = ast.arena[n].range
                 /\ symbol_table.arena[t].children
                       = [i \in 1..Len(nested) |-> TableOf(ast, nested[i])]

\* a scope reached through a node that opens no scope, with a scope of its
\* own nested in it
C14_Witness ==
    /\ Built
    /\ \E s1, s2 \in 1..Len(ast.arena) :
        /\ ast.arena[s1].kind = "Scope" /\ ast.arena[s2].kind = "Scope"
        /\ ast.arena[s1].parent # ast.root_id
        /\ ast.arena[ast.arena[s1].parent].kind = "Other"
        /\ ast.arena[s2].parent = s1
        /\ symbol_table.arena[TableOf(ast, ast.root_id)].children
              = <<TableOf(ast, s1)>>
        /\ symbol_table.arena[TableOf(ast, s1)].children = <<TableOf(ast, s2)>>

\* position p lies strictly between the two ends of the range
StrictlyInside(range, p) == PosLt(range.start, p) /\ PosLt(p, range.end)

(* C15: get_symbols_in_scope(position) merges the symbols of a nested      *)
(* scope only when that scope and every nested scope around it strictly    *)
(* contain position (start < position < end): a scope that starts or ends  *)
(* at position, or lies below one that does not strictly contain it,       *)
(* contributes nothing; a scope reached through strictly containing scopes *)
(* contributes its symbols declared before position.                       *)
C15_DescendsOnlyWhenStrictlyInside ==
    InScopeQuery =>
        \A t \in 1..Len(symbol_table.arena) \ {symbol_table.root_id.val} :
            \A cat \in Categories :
                \A sym \in SeqToSet(symbol_table.arena[t].symbols[cat]) :
                    (sym \in SeqToSet(result.val[cat]))
                        <=> /\ \A c \in Chain(symbol_table, t)
                                        \ {symbol_table.root_id.val} :
                                  StrictlyInside(symbol_table.arena[c].range,
                                                 op.position)
                            /\ PosLt(sym.def_position.end, op.position)

\* a query at the end of a nested scope that declares a symbol: the symbol
\* is declared before the position and is not returned
C15_Witness ==
    /\ InScopeQuery
    /\ \E t \in 1..Len(symbol_table.arena) \ {symbol_table.root_id.val} :
        /\ symbol_table.arena[t].range.end = op.position
        /\ \E cat \in Categories :
            \E sym \in SeqToSet(symbol_table.arena[t].symbols[cat]) :
                /\ PosLt(sym.def_position.end, op.position)
                /\ sym \notin SeqToSet(result.val[cat])

----------------------------------------------------------------------------
\* the constant declarations among the statements of a file, in source order
ConstantStatements(stmts) ==
    SelectSeq(stmts, LAMBDA st : st.kind = "constant_declaration")

\* the range of the k-th statement of a file
StatementRange(stmts, k) ==
    [ start |-> [line |-> k - 1, character |-> 0],
      end   |-> [line |-> k - 1, character |-> Len(StmtTokens(stmts[k]))] ]

ConstantRanges(stmts) ==
    LET ks == Ascending({ k \in 1..Len(stmts) :
                            stmts[k].kind = "constant_declaration" })
    IN [ i \in 1..Len(ks) |-> StatementRange(stmts, ks[i]) ]

\* the children of node n of an arena, in the order they were appended
ChildrenOf(arena, n) == Ascending({ j \in 1..Len(arena) : arena[j].parent = n })

(* C11: translate returns an Ast for every file, never a panic: the root   *)
(* has one ConstantDec node per constant declaration of the file, in       *)
(* source order and with the range of the declaration, even when the       *)
(* declaration lacks its type or its name or has a type the translator     *)
(* has no rule for; such a node has no child for what is missing and keeps *)
(* its Name child when the name is there.                                  *)
C11_TranslateNeverAborts ==
    op.name = "translate" =>
        /\ result # Panic
        /\ result.some
        /\ LET arena == result.val.arena
               root == result.val.root_id.val
               decs == ChildrenOf(arena, root)
               stmts == ConstantStatements(op.statements)
           IN /\ arena[root].kind = "Root"
              /\ Len(decs) = Len(stmts)
              /\ \A i \in 1..Len(decs) :
                    /\ arena[decs[i]].kind = "ConstantDec"
                    /\ arena[decs[i]].range = ConstantRanges(op.statements)[i]
                    /\ stmts[i].type = Absent =>
                          \A c \in SeqToSet(ChildrenOf(arena, decs[i])) :
                              arena[c].kind # "Type"
                    /\ IF stmts[i].name = Absent
                       THEN \A c \in SeqToSet(ChildrenOf(arena, decs[i])) :
                                arena[c].kind # "Name"
                       ELSE \E c \in SeqToSet(ChildrenOf(arena, decs[i])) :
                                /\ arena[c].kind = "Name"
                                /\ arena[c].content = <<stmts[i].name>>

\* a statement the grammar accepts: a declaration of another kind, or a
\* constant declaration with a name and a type of one of the grammar's kinds
WellFormedStatement(st) ==
    \/ st.kind # "constant_declaration"
    \/ st.type \in TypeKinds \ {"ERROR"} /\ st.name \in Idents

WellFormedFile(stmts) == \A k \in 1..Len(stmts) : WellFormedStatement(stmts[k])

(* C13: translating a file of well-formed statements yields an Ast whose   *)
(* root has exactly one ConstantDec node per constant declaration, in      *)
(* source order, with the range of the whole declaration and exactly two   *)
(* children, a Type node then a Name node whose content is the declared    *)
(* name; statements of other kinds yield no node; and the root scope of    *)
(* the table built from that Ast holds exactly one constant symbol per     *)
(* ConstantDec node, with that name and that range, and no other symbol.   *)
C13_ConstantDeclarationTranslated ==
    /\ (op.name = "translate" /\ WellFormedFile(op.statements)) =>
          /\ result.some
          /\ LET arena == result.val.arena
                 root == result.val.root_id.val
                 decs == ChildrenOf(arena, root)
                 stmts == ConstantStatements(op.statements)
             IN /\ Len(decs) = Len(stmts)
                /\ Len(arena) = 1 + 3 * Len(stmts)
                /\ \A i \in 1..Len(decs) :
                      LET children == ChildrenOf(arena, decs[i])
                      IN /\ arena[decs[i]].kind = "ConstantDec"
                         /\ arena[decs[i]].range
                               = ConstantRanges(op.statements)[i]
                         /\ Len(children) = 2
                         /\ arena[children[1]].kind = "Type"
                         /\ arena[children[2]].kind = "Name"
                         /\ arena[children[2]].content = <<stmts[i].name>>
    /\ op.name = "SymbolTable::new" =>
          /\ result # Panic
          /\ symbol_table.root_id.some
          /\ RootScope.symbols
                = [ Symbols_default EXCEPT
                      !.constants = Declared(ast, ast.root_id, "ConstantDec") ]
          /\ Len(RootScope.symbols.constants)
                = Len(ChildrenOf(ast.arena, ast.root_id))

====
